---- MODULE Spec2Model ----
(***************************************************************************)
(* Model of the validation engine of streamlit_app.py: apply_validation    *)
(* (lines 37-66) and the run loop that calls it once per selected column   *)
(* and collects the results into all_errors (lines 126-153).               *)
(*                                                                         *)
(* A character is a one-token string; "sup2" stands for U+00B2             *)
(* (SUPERSCRIPT TWO) and "half" for U+00BD (VULGAR FRACTION ONE HALF).     *)
(* A Python str is a sequence of characters.  A cell or a parameter is a   *)
(* record [t, s, n]: t = "nan" (missing cell), "none" (Python None),       *)
(* "str" (text s) or "int" (integer n).                                    *)
(***************************************************************************)
EXTENDS Integers, Sequences, FiniteSets, TLC

VARIABLES df, original, selected_columns, selected_rule, param,
          pc, idx, all_errors, last, prev_errors

vars == <<df, original, selected_columns, selected_rule, param,
          pc, idx, all_errors, last, prev_errors>>

\* ------------------------------------------------------------------ bounds
MaxRows == 2
MaxTargets == 2
MaxLen == 2

\* ------------------------------------------------------------ Python values
NaN == [t |-> "nan", s |-> <<>>, n |-> 0]
None == [t |-> "none", s |-> <<>>, n |-> 0]
StrVal(x) == [t |-> "str", s |-> x, n |-> 0]
IntVal(k) == [t |-> "int", s |-> <<>>, n |-> k]

DecimalDigits == <<"0", "1", "2", "3", "4", "5", "6", "7", "8", "9">>

IsDecimalDigit(c) == \E i \in 1..Len(DecimalDigits) : DecimalDigits[i] = c

DigitValue(c) == (CHOOSE i \in 1..Len(DecimalDigits) : DecimalDigits[i] = c) - 1

\* str.isnumeric() on one character: the Unicode Numeric_Type is Decimal,
\* Digit or Numeric, which covers the superscripts and the vulgar fractions.
IsNumericChar(c) == IsDecimalDigit(c) \/ c \in {"sup2", "half"}

\* str.isnumeric(): every character is numeric and there is at least one.
IsNumeric(s) == Len(s) > 0 /\ \A i \in 1..Len(s) : IsNumericChar(s[i])

RECURSIVE IntToStr(_)
IntToStr(k) ==
    IF k < 0 THEN <<"-">> \o IntToStr(-k)
    ELSE IF k < 10 THEN <<DecimalDigits[k + 1]>>
    ELSE IntToStr(k \div 10) \o <<DecimalDigits[(k % 10) + 1]>>

\* str(value) of a cell or of a parameter
StrForm(v) ==
    CASE v.t = "nan" -> <<"n", "a", "n">>
      [] v.t = "none" -> <<"N", "o", "n", "e">>
      [] v.t = "int" -> IntToStr(v.n)
      [] OTHER -> v.s

RECURSIVE LStrip(_)
LStrip(s) == IF Len(s) > 0 /\ Head(s) = " " THEN LStrip(Tail(s)) ELSE s

RECURSIVE RStrip(_)
RStrip(s) ==
    IF Len(s) > 0 /\ s[Len(s)] = " " THEN RStrip(SubSeq(s, 1, Len(s) - 1)) ELSE s

Strip(s) == RStrip(LStrip(s))

RECURSIVE DigitsValue(_)
DigitsValue(s) ==
    IF Len(s) = 0 THEN 0
    ELSE 10 * DigitsValue(SubSeq(s, 1, Len(s) - 1)) + DigitValue(s[Len(s)])

\* int(text): surrounding whitespace dropped, an optional sign, then one or
\* more decimal digits; anything else is a ValueError.
ParseInt(s) ==
    LET body == Strip(s)
        signed == Len(body) > 0 /\ body[1] \in {"-", "+"}
        digits == IF signed THEN Tail(body) ELSE body
    IN  IF Len(digits) > 0 /\ \A i \in 1..Len(digits) : IsDecimalDigit(digits[i])
        THEN [status |-> "ok",
              n |-> IF signed /\ body[1] = "-" THEN -DigitsValue(digits)
                    ELSE DigitsValue(digits)]
        ELSE [status |-> "ValueError", n |-> 0]

\* int(param), line 59
PyInt(p) ==
    CASE p.t = "int" -> [status |-> "ok", n |-> p.n]
      [] p.t = "str" -> ParseInt(p.s)
      [] OTHER -> [status |-> "TypeError", n |-> 0]

\* needle in hay, for two str values
IsSubstring(needle, hay) ==
    \E i \in 0..Len(hay) :
        /\ i + Len(needle) <= Len(hay)
        /\ SubSeq(hay, i + 1, i + Len(needle)) = needle

\* --------------------------------------------------------------- the dataset
DfColumns == {"a", "b"}

FillNa(d, column) ==
    [i \in DOMAIN d |->
        [d[i] EXCEPT ![column] = IF @.t = "nan" THEN StrVal(<<>>) ELSE @]]

\* The list comprehensions of lines 47-51, 53-57 and 60-64: the rows of
\* d[column] in index order, keeping (idx, message) where the test fails.
\* bad[i] and message[i] are the test and the message of the row at
\* position i; row labels are those of the loader's RangeIndex, 0 .. len-1.
FilterRows(d, bad, message) ==
    LET F[i \in 0..Len(d)] ==
            IF i = 0 THEN <<>>
            ELSE IF bad[i] THEN Append(F[i - 1], <<i - 1, message[i]>>)
                 ELSE F[i - 1]
    IN  F[Len(d)]

KeywordMissing(value, keyword) == ~IsSubstring(keyword.s, StrForm(value))

NotNumeric(value) == ~IsNumeric(StrForm(value))

\* the length test with < for !=
WrongLength_LessThan(value, length) == Len(StrForm(value)) < length

WrongLength(value, length) == Len(StrForm(value)) # length

KeywordMessage(value, keyword) ==
    [text |-> "Keyword not found in value", value |-> StrForm(value),
     arg |-> StrForm(keyword)]

NumericMessage(value) ==
    [text |-> "Value is not numeric", value |-> StrForm(value), arg |-> <<>>]

LengthMessage(value, length) ==
    [text |-> "Value is not exactly N characters", value |-> StrForm(value),
     arg |-> IntToStr(length)]

Result(status, errors, d, scanned) ==
    [status |-> status, errors |-> errors, df |-> d, scanned |-> scanned]

\* The if/elif chain of lines 45-64 over the column as line 43 left it
Dispatch(filled, column, rule, p) ==
    LET length == PyInt(p)
        rows == 1..Len(filled)
        value == [i \in rows |-> filled[i][column]]
    IN  CASE rule = "contains_keyword_in_row" ->
               \* "x not in str" raises TypeError unless x is a str; the
               \* test is first evaluated on the first row
               IF p.t # "str" /\ Len(filled) > 0
               THEN Result("TypeError", <<>>, filled, 1)
               ELSE Result("ok",
                           FilterRows(filled,
                                      [i \in rows |-> KeywordMissing(value[i], p)],
                                      [i \in rows |-> KeywordMessage(value[i], p)]),
                           filled, Len(filled))
          [] rule = "numeric_only" ->
               Result("ok",
                      FilterRows(filled,
                                 [i \in rows |-> NotNumeric(value[i])],
                                 [i \in rows |-> NumericMessage(value[i])]),
                      filled, Len(filled))
          [] rule = "fixed_length" ->
               IF length.status # "ok"
               THEN Result(length.status, <<>>, filled, 0)
               ELSE Result("ok",
                           FilterRows(filled,
                                      [i \in rows |-> WrongLength(value[i], length.n)],
                                      [i \in rows |-> LengthMessage(value[i], length.n)]),
                           filled, Len(filled))
          [] OTHER -> Result("ok", <<>>, filled, 0)

\* apply_validation without the guard of line 40: df[column] raises KeyError
ApplyValidation_NoColumnGuard(d, column, rule, p) ==
    IF column \notin DfColumns THEN Result("KeyError", <<>>, d, 0)
    ELSE Dispatch(FillNa(d, column), column, rule, p)

\* apply_validation that scans the column as it was before line 43 filled it
ApplyValidation_ScanUnfilled(d, column, rule, p) ==
    IF column \notin DfColumns THEN Result("ok", <<>>, d, 0)
    ELSE [Dispatch(d, column, rule, p) EXCEPT !.df = FillNa(d, column)]

\* apply_validation(df, column, rule, param), lines 37-66.  The result holds
\* the outcome (a returned list or the exception raised), the dataset as the
\* call leaves it, and the number of rows fetched from df[column].items().
ApplyValidation(d, column, rule, p) ==
    IF column \notin DfColumns THEN Result("ok", <<>>, d, 0)
    ELSE Dispatch(FillNa(d, column), column, rule, p)

\* extend that puts the new records in front
Extend_Prepend(all, errors, column) ==
    [k \in 1..Len(errors) |-> <<errors[k][1], column, errors[k][2]>>] \o all

\* all_errors.extend([(row, col, err) for row, err in errors for col in [column]])
Extend(all, errors, column) ==
    all \o [k \in 1..Len(errors) |-> <<errors[k][1], column, errors[k][2]>>]

\* ------------------------------------------------------------------- inputs
RECURSIVE SeqsUpTo(_, _)
SeqsUpTo(S, k) ==
    IF k = 0 THEN {<<>>}
    ELSE LET shorter == SeqsUpTo(S, k - 1)
         IN  shorter \cup {Append(q, x) : q \in shorter, x \in S}

NoDuplicates(q) == \A i, j \in 1..Len(q) : i # j => q[i] # q[j]

\* st.multiselect (line 115) returns each chosen name once, in the order
\* chosen; "zz" is a name the dataset lacks, for the guard of line 40.
TargetNames == DfColumns \cup {"zz"}

TargetLists(k) == {q \in SeqsUpTo(TargetNames, k) : NoDuplicates(q)}

RunCells == {NaN, StrVal(<<>>), StrVal(<<"7">>), StrVal(<<"a", "b">>)}

RunDatasets ==
    UNION {[1..r -> [DfColumns -> RunCells]] : r \in 0..MaxRows}

RunConfigs ==
    { <<"contains_keyword_in_row", StrVal(<<"a">>)>>,
      <<"numeric_only", None>>,
      <<"fixed_length", IntVal(1)>>,
      <<"fixed_length", IntVal(2)>>,
      <<"fixed_length", StrVal(<<"a", "b", "c">>)>>,
      <<"allowed_values", StrVal(<<"A", ",", "B">>)>> }

CellAlphabet == {"1", "a", "A", "-", ".", " ", "sup2"}

CellTexts == SeqsUpTo(CellAlphabet, MaxLen)

RichCells == {NaN, IntVal(-1), IntVal(12)} \cup {StrVal(x) : x \in CellTexts}

CellDatasets == {<<[a |-> c, b |-> StrVal(<<>>)]>> : c \in RichCells}

CellTargets == {<<"a">>, <<"zz", "a">>}

CellConfigs ==
    RunConfigs \cup
    { <<"contains_keyword_in_row", None>>,
      <<"contains_keyword_in_row", StrVal(<<>>)>>,
      <<"contains_keyword_in_row", StrVal(<<" ">>)>>,
      <<"fixed_length", None>>,
      <<"fixed_length", IntVal(0)>>,
      <<"fixed_length", IntVal(-1)>>,
      <<"fixed_length", StrVal(<<>>)>>,
      <<"fixed_length", StrVal(<<" ", "2", " ">>)>>,
      <<"fixed_length", StrVal(<<"-", "1">>)>>,
      <<"allowed_values", StrVal(<<>>)>>,
      <<"regex_match", StrVal(<<"a">>)>>,
      <<"contains_keyword", StrVal(<<"a">>)>>,
      <<"not_a_rule", None>> }

NoCall == [status |-> "none", column |-> "", errors |-> <<>>, scanned |-> 0]

NoPrev == [set |-> FALSE, errors |-> <<>>]

\* ------------------------------------------------------------ state machine
\* The state when "Run Validation" has been pressed and lines 132-134 have
\* run: a loaded dataset, the chosen columns, rule and parameter, an empty
\* all_errors.  Either a dataset of several rows over a few cell values, or
\* a dataset of one row whose cell ranges over many texts.
Init ==
    /\ \/ /\ df \in RunDatasets
          /\ selected_columns \in TargetLists(MaxTargets)
          /\ \E c \in RunConfigs : selected_rule = c[1] /\ param = c[2]
       \/ /\ df \in CellDatasets
          /\ selected_columns \in CellTargets
          /\ \E c \in CellConfigs : selected_rule = c[1] /\ param = c[2]
    /\ original = df
    /\ pc = "loop"
    /\ idx = 0
    /\ all_errors = <<>>
    /\ last = NoCall
    /\ prev_errors = NoPrev

Call == ApplyValidation(df, selected_columns[idx + 1], selected_rule, param)

\* One iteration of the loop of lines 136-147 in which apply_validation returns
ValidateColumn ==
    /\ pc = "loop"
    /\ idx < Len(selected_columns)
    /\ Call.status = "ok"
    /\ df' = Call.df
    /\ all_errors' = Extend(all_errors, Call.errors, selected_columns[idx + 1])
    /\ last' = [status |-> "ok", column |-> selected_columns[idx + 1],
                errors |-> Call.errors, scanned |-> Call.scanned]
    /\ idx' = idx + 1
    /\ UNCHANGED <<original, selected_columns, selected_rule, param, pc, prev_errors>>

\* One iteration in which apply_validation raises: the exception leaves the
\* loop and ends the run, all_errors is never shown
ValidateColumnRaises ==
    /\ pc = "loop"
    /\ idx < Len(selected_columns)
    /\ Call.status # "ok"
    /\ df' = Call.df
    /\ last' = [status |-> Call.status, column |-> selected_columns[idx + 1],
                errors |-> <<>>, scanned |-> Call.scanned]
    /\ pc' = "raised"
    /\ UNCHANGED <<original, selected_columns, selected_rule, param, idx,
                   all_errors, prev_errors>>

\* The loop is exhausted: lines 149-182 report all_errors
Finish ==
    /\ pc = "loop"
    /\ idx = Len(selected_columns)
    /\ pc' = "done"
    /\ UNCHANGED <<df, original, selected_columns, selected_rule, param, idx,
                   all_errors, last, prev_errors>>

\* A second run of lines 132-147 over the same dataset object with the same
\* selection; prev_errors keeps the list the first run reported.
RunValidation ==
    /\ pc = "done"
    /\ ~prev_errors.set
    /\ prev_errors' = [set |-> TRUE, errors |-> all_errors]
    /\ all_errors' = <<>>
    /\ idx' = 0
    /\ pc' = "loop"
    /\ last' = NoCall
    /\ UNCHANGED <<df, original, selected_columns, selected_rule, param>>

Next == ValidateColumn \/ ValidateColumnRaises \/ Finish \/ RunValidation

Spec == Init /\ [][Next]_vars

\* ------------------------------------------------------------------ claims
\* The rule identifiers the if/elif chain of lines 45-58 tests for
EngineRules == {"contains_keyword_in_row", "numeric_only", "fixed_length"}

Rows == 1..Len(df)

\* The string form of a cell, a missing cell taken as the empty string
CellText(v) == IF v.t = "nan" THEN <<>> ELSE StrForm(v)

ColumnPosition(c) == CHOOSE k \in 1..Len(selected_columns) : selected_columns[k] = c

AllTargetsExist == \A k \in 1..Len(selected_columns) : selected_columns[k] \in DfColumns

\* A call of apply_validation on a column of the dataset has ended
CalledOnColumn == last.status # "none" /\ last.column \in DfColumns

\* Row i (1-based position, label i - 1) is in the list the last call returned
Flagged(i) == \E k \in 1..Len(last.errors) : last.errors[k][1] = i - 1

RowMajor(q) ==
    \A i, j \in 1..Len(q) :
        i < j => \/ q[i][1] < q[j][1]
                 \/ /\ q[i][1] = q[j][1]
                    /\ ColumnPosition(q[i][2]) < ColumnPosition(q[j][2])

ColumnMajor(q) ==
    \A i, j \in 1..Len(q) :
        i < j => \/ ColumnPosition(q[i][2]) < ColumnPosition(q[j][2])
                 \/ /\ q[i][2] = q[j][2]
                    /\ q[i][1] < q[j][1]

C2_DatasetNeverMutated == df = original

\* C3: a call with a rule identifier the engine does not recognize ends in an
\* UnknownRule error; it never returns a violation list.
C3_UnknownRuleRaises ==
    (selected_rule \notin EngineRules /\ CalledOnColumn)
        => (last.status = "UnknownRule" /\ last.scanned = 0)

\* The parameter parses as a positive integer
PositiveLength(p) == PyInt(p).status = "ok" /\ PyInt(p).n > 0

\* C4: fixed_length with a parameter that is non-numeric or not a positive
\* integer fails before any row is inspected and returns no violation list.
C4_BadLengthRejected ==
    (selected_rule = "fixed_length" /\ ~PositiveLength(param) /\ CalledOnColumn)
        => (last.status # "ok" /\ last.scanned = 0)

\* The keyword is absent or empty after trimming
KeywordAbsent(p) == p.t = "none" \/ (p.t = "str" /\ Strip(p.s) = <<>>)

\* C5: the contains-keyword rule with an absent or blank parameter fails;
\* the call never completes a scan and returns a violation list.
C5_BlankKeywordRejected ==
    (selected_rule = "contains_keyword_in_row" /\ KeywordAbsent(param) /\ CalledOnColumn)
        => last.status # "ok"

\* The test the rule applies to one cell, for a parameter the rule accepts
Violates(rule, p, v) ==
    CASE rule = "contains_keyword_in_row" -> KeywordMissing(v, p)
      [] rule = "numeric_only" -> NotNumeric(v)
      [] rule = "fixed_length" -> WrongLength(v, PyInt(p).n)
      [] OTHER -> FALSE

\* C6: a call on a column the dataset lacks returns an empty list and raises
\* nothing, whatever the rule and the parameter; the run goes on, and a
\* finished run reports exactly the failing cells of the target columns that
\* exist.
C6_MissingColumnSkipped ==
    /\ (last.status # "none" /\ last.column \notin DfColumns)
          => (last.status = "ok" /\ last.errors = <<>> /\ pc # "raised")
    /\ pc = "done" =>
          /\ \A k \in 1..Len(selected_columns) : \A i \in Rows :
                selected_columns[k] \in DfColumns =>
                   (Violates(selected_rule, param,
                             StrVal(CellText(original[i][selected_columns[k]])))
                      <=> \E j \in 1..Len(all_errors) :
                             /\ all_errors[j][1] = i - 1
                             /\ all_errors[j][2] = selected_columns[k])
          /\ \A j \in 1..Len(all_errors) : all_errors[j][2] \in DfColumns

C6_Witness ==
    /\ pc = "done"
    /\ Len(selected_columns) = 2
    /\ selected_columns[1] = "zz"
    /\ all_errors # <<>>

\* C7: a second run over the same dataset object with the same columns, rule
\* and parameter reports the same ordered violation list as the first.
C7_SecondRunIdentical ==
    (pc = "done" /\ prev_errors.set) => all_errors = prev_errors.errors

C7_Witness ==
    /\ pc = "done"
    /\ prev_errors.set
    /\ all_errors # <<>>
    /\ df # original
    /\ \E j \in 1..Len(all_errors) :
          original[all_errors[j][1] + 1][all_errors[j][2]] = NaN

\* A non-empty text of the characters "0" to "9" only
DecimalOnly(s) == Len(s) > 0 /\ \A i \in 1..Len(s) : IsDecimalDigit(s[i])

\* C8: numeric_only reports a cell if and only if its string form is empty
\* or has a character that is not one of the decimal digits "0" to "9".
C8_NumericOnlyDecimalDigits ==
    (selected_rule = "numeric_only" /\ CalledOnColumn /\ last.status = "ok")
        => \A i \in Rows :
              Flagged(i) <=> ~DecimalOnly(CellText(original[i][last.column]))

\* The pieces of a comma-separated text, each trimmed
RECURSIVE Pieces(_, _)
Pieces(s, piece) ==
    IF Len(s) = 0 THEN {Strip(piece)}
    ELSE IF Head(s) = "," THEN {Strip(piece)} \cup Pieces(Tail(s), <<>>)
    ELSE Pieces(Tail(s), Append(piece, Head(s)))

AllowedSet(p) == Pieces(p.s, <<>>) \ {<<>>}

\* C9: allowed_values with a non-empty parsed set S reports a cell if and
\* only if its exact string form (a missing cell being "") is not in S.
C9_AllowedValuesMembership ==
    (selected_rule = "allowed_values" /\ param.t = "str" /\ AllowedSet(param) # {}
       /\ CalledOnColumn /\ last.status = "ok")
        => \A i \in Rows :
              Flagged(i) <=> CellText(original[i][last.column]) \notin AllowedSet(param)

RecordsFor(i, c) ==
    {j \in 1..Len(all_errors) : all_errors[j][1] = i - 1 /\ all_errors[j][2] = c}

\* C10: a finished fixed_length run with a valid length L over target columns
\* that all exist holds exactly one record for each (row, target column) whose
\* cell text (a missing cell being "", of length 0) is not L characters long,
\* and no other record.
C10_FixedLengthExhaustive ==
    (pc = "done" /\ selected_rule = "fixed_length" /\ PositiveLength(param)
       /\ AllTargetsExist)
        => /\ \A i \in Rows : \A k \in 1..Len(selected_columns) :
                 Cardinality(RecordsFor(i, selected_columns[k])) =
                    IF Len(CellText(original[i][selected_columns[k]])) # PyInt(param).n
                    THEN 1 ELSE 0
           /\ \A j \in 1..Len(all_errors) :
                 /\ all_errors[j][1] + 1 \in Rows
                 /\ \E k \in 1..Len(selected_columns) :
                       selected_columns[k] = all_errors[j][2]

C10_Witness ==
    /\ pc = "done"
    /\ selected_rule = "fixed_length"
    /\ PositiveLength(param)
    /\ AllTargetsExist
    /\ Len(selected_columns) = 2
    /\ Len(all_errors) >= 2
    /\ \E i \in Rows : original[i][selected_columns[1]] = NaN
    /\ \E i \in Rows : \E k \in 1..2 :
          Len(CellText(original[i][selected_columns[k]])) = PyInt(param).n
    /\ \E i \in Rows : \E k \in 1..2 :
          Len(CellText(original[i][selected_columns[k]])) > PyInt(param).n

====
